---- MODULE Spec2Model ----
(***************************************************************************)
(* Model of the videoGen production-sheet pipeline: the scene normalizer   *)
(* (VirtualDirector._post_process_scenes), the Director's process_script   *)
(* with its backend routines and fallback, and the control flow of main.   *)
(* The repository carries two generations of the Director:                 *)
(*   "root" = src/director.py      (gemini + groq, six defaults)           *)
(*   "pkg"  = src/src/director.py  (gemini + openai + groq, two defaults)  *)
(* Both are modelled; variant selects which one is on the import path.     *)
(***************************************************************************)
EXTENDS Integers, Sequences, FiniteSets, TLC

\* ---------------------------------------------------------------- bounds
\* longest raw scene list drawn as an input
MaxScenes == 2

\* longest sequence handed to calculate_statistics
MaxStatScenes == 7

\* ------------------------------------------------------ program constants
DefaultDuration == 5

Variants == {"root", "pkg"}

Providers == {"gemini", "groq", "openai"}

\* ------------------------------------------------------------ JSON values
\* A decoded JSON value of a scene field: an integer, a string, a list of
\* strings or null.  All four share one record shape so values compare.
IntV(i) == [kind |-> "int", n |-> i, s |-> "", l |-> <<>>]

StrV(x) == [kind |-> "str", n |-> 0, s |-> x, l |-> <<>>]

ListV(q) == [kind |-> "list", n |-> 0, s |-> "", l |-> q]

NullV == [kind |-> "null", n |-> 0, s |-> "", l |-> <<>>]

\* The six fields the normalizer is specified to default.
DefaultedFields ==
    {"scene_number", "duration_seconds", "transition_type",
     "motion_intensity", "key_elements", "audio_suggestion"}

\* A scene record is a function from the keys it has to JSON values.
EmptyScene == [k \in {} |-> NullV]

\* dict[k] = v
Put(f, k, v) == [x \in (DOMAIN f) \cup {k} |-> IF x = k THEN v ELSE f[x]]

\* dict[k] = v whether or not k is there
SetDefaultOverwrite(f, k, v) == Put(f, k, v)

\* if k not in dict: dict[k] = v
SetDefault(f, k, v) == IF k \in DOMAIN f THEN f ELSE Put(f, k, v)

\* ------------------------------------------------- elements and raw values
\* What iterating a decoded value yields: a dict (scene), a str (a dict key
\* or a character of a string) or a scalar that is not a container.
DictE(f) == [t |-> "dict", f |-> f, s |-> ""]

StrE(x) == [t |-> "str", f |-> EmptyScene, s |-> x]

ScalarE == [t |-> "scalar", f |-> EmptyScene, s |-> ""]

\* A decoded JSON document.  iter is what enumerate() yields (list elements,
\* dict keys, string characters); inner is the value stored under "scenes"
\* when the document is a mapping that has that key.
ListRaw(es) == [kind |-> "list", iter |-> es, hasScenes |-> FALSE, inner |-> <<>>]

DictRaw(keys) ==
    [kind |-> "dict", iter |-> [i \in 1..Len(keys) |-> StrE(keys[i])],
     hasScenes |-> FALSE, inner |-> <<>>]

EnvelopeRaw(es) ==
    [kind |-> "dict", iter |-> <<StrE("scenes")>>, hasScenes |-> TRUE, inner |-> es]

StrRaw(chars) ==
    [kind |-> "str", iter |-> [i \in 1..Len(chars) |-> StrE(chars[i])],
     hasScenes |-> FALSE, inner |-> <<>>]

NumRaw == [kind |-> "num", iter |-> <<>>, hasScenes |-> FALSE, inner |-> <<>>]

\* Outcome of a call: a returned value or a raised exception.
Ok(v) == [ok |-> TRUE, err |-> "", val |-> v]

Raise(e) == [ok |-> FALSE, err |-> e, val |-> NumRaw]

\* ------------------------------------------------------------- normalizer
\* Python's `name in s` for a str s.  None of the strings the model draws
\* (dict keys, characters) properly contains a field name, so containment
\* is equality.
Contains(s, name) == s = name

\* The defaults one variant applies, in the order of its if-statements.
FieldsFilled(v) ==
    IF v = "root" THEN DefaultedFields ELSE {"scene_number", "duration_seconds"}

\* One pass of the loop body over element e at index i (0-based) of n
\* raises TypeError when e is not a mapping: `in` on a scalar, or item
\* assignment on a str once one of the tested names is not a substring.
ElemRaises(v, e) ==
    \/ e.t = "scalar"
    \/ e.t = "str" /\ \E k \in FieldsFilled(v) : ~Contains(e.s, k)

\* src/director.py: the six defaults, transition depending on the position.
FillRoot(f, i, n) ==
    LET f1 == SetDefault(f, "scene_number", IntV(i + 1))
        f2 == SetDefault(f1, "duration_seconds", IntV(DefaultDuration))
        f3 == SetDefault(f2, "transition_type",
                         IF i < n - 1 THEN StrV("cut") ELSE StrV("fade"))
        f4 == SetDefault(f3, "motion_intensity", StrV("medium"))
        f5 == SetDefault(f4, "key_elements", ListV(<<>>))
    IN  SetDefault(f5, "audio_suggestion", StrV("Ambient atmosphere"))

\* src/src/director.py: scene_number and duration_seconds only.
FillPkg(f, i, n) ==
    SetDefault(SetDefault(f, "scene_number", IntV(i + 1)),
               "duration_seconds", IntV(DefaultDuration))

\* the loop body adding one to the scene number the record ends up with
FillSceneRenumber(v, f, i, n) ==
    LET g == IF v = "root" THEN FillRoot(f, i, n) ELSE FillPkg(f, i, n)
    IN  Put(g, "scene_number", IntV(g["scene_number"].n + 1))

FillScene(v, f, i, n) == IF v = "root" THEN FillRoot(f, i, n) ELSE FillPkg(f, i, n)

\* The loop `for i, scene in enumerate(scenes)` over an iterable value.
\* A number is not iterable; a mapping yields its keys, a str its characters.
LoopOver(v, r) ==
    IF r.kind = "num" THEN Raise("TypeError")
    ELSE IF \E i \in 1..Len(r.iter) : ElemRaises(v, r.iter[i]) THEN Raise("TypeError")
    ELSE Ok([r EXCEPT !.iter =
                [i \in 1..Len(r.iter) |->
                    IF r.iter[i].t = "dict"
                    THEN DictE(FillScene(v, r.iter[i].f, i - 1, Len(r.iter)))
                    ELSE r.iter[i]]])

\* VirtualDirector._post_process_scenes.  Only the pkg variant unwraps a
\* mapping that has a "scenes" key; the root variant iterates what it gets.
PostProcess(v, r) ==
    IF v = "pkg" /\ r.kind = "dict" /\ r.hasScenes
    THEN LoopOver(v, ListRaw(r.inner))
    ELSE LoopOver(v, r)

\* The loop assigns into the records of the list it was given: when an
\* element makes it raise, the records before that element are already
\* filled.
FilledUpTo(v, r) ==
    LET bad == {i \in 1..Len(r.iter) : ElemRaises(v, r.iter[i])}
    IN  [r EXCEPT !.iter =
            [i \in 1..Len(r.iter) |->
                IF r.iter[i].t = "dict" /\ \A j \in bad : i < j
                THEN DictE(FillScene(v, r.iter[i].f, i - 1, Len(r.iter)))
                ELSE r.iter[i]]]

\* the caller's object after _post_process_scenes(r) has run
ArgumentAfter(v, r) ==
    IF r.kind = "num" THEN r
    ELSE IF v = "pkg" /\ r.kind = "dict" /\ r.hasScenes
    THEN [r EXCEPT !.inner = FilledUpTo(v, ListRaw(r.inner)).iter]
    ELSE FilledUpTo(v, r)

\* `return scenes`: the object returned is the argument, except where the
\* name was rebound to the value under "scenes"
ReturnsArgument(v, r) == ~(v = "pkg" /\ r.kind = "dict" /\ r.hasScenes)

\* ------------------------------------------------------------ input sets
FullScene ==
    [scene_number |-> IntV(1), visual_prompt |-> StrV("x"),
     duration_seconds |-> IntV(7), transition_type |-> StrV("dissolve"),
     motion_intensity |-> StrV("high"), key_elements |-> ListV(<<"a", "b">>),
     audio_suggestion |-> StrV("Rain")]

RawScenes ==
    { EmptyScene,
      [scene_number |-> IntV(2)],
      [scene_number |-> IntV(1), visual_prompt |-> StrV("A boy on a rooftop.")],
      [duration_seconds |-> IntV(0)],
      [duration_seconds |-> StrV("five")],
      [motion_intensity |-> NullV],
      FullScene }

Elems == {DictE(f) : f \in RawScenes} \cup {ScalarE}

ElemLists == UNION {[1..n -> Elems] : n \in 0..MaxScenes}

\* every decoded document the model feeds to the code
RawInputs ==
    {ListRaw(es) : es \in ElemLists}
    \cup {EnvelopeRaw(es) : es \in ElemLists}
    \cup {DictRaw(<<>>), DictRaw(<<"title">>), StrRaw(<<>>), StrRaw(<<"a">>), NumRaw}

\* --------------------------------------------------------------- fallback
\* VirtualDirector._mock_response.  The long prose values are shortened;
\* keys, numbers and tags are the literal ones.
MockSceneRoot(num, dur, trans, motion, elems) ==
    [scene_number |-> IntV(num), narrative_beat |-> StrV("(Mock Output)"),
     visual_prompt |-> StrV("shot"), camera_movement |-> StrV("camera"),
     mood_lighting |-> StrV("light"), duration_seconds |-> IntV(dur),
     transition_type |-> StrV(trans), motion_intensity |-> StrV(motion),
     key_elements |-> ListV(elems), audio_suggestion |-> StrV("audio"),
     character_details |-> StrV("Raju"), continuity_notes |-> StrV("CONTINUES")]

MockRoot ==
    ListRaw(<<
      DictE(MockSceneRoot(1, 6, "fade", "low", <<"boy", "sky", "village", "moonlight">>)),
      DictE(MockSceneRoot(2, 5, "eyeline_match", "high", <<"orb", "reaction", "shift", "rays", "rooftop">>)),
      DictE(MockSceneRoot(3, 7, "motion_match", "medium", <<"fairy", "hand", "boy", "rooftop", "glow", "bokeh">>)),
      DictE(MockSceneRoot(4, 4, "match_cut", "high", <<"contact", "burst", "particles", "rooftop", "impact">>)),
      DictE(MockSceneRoot(5, 8, "dissolve", "medium", <<"flying", "aerial", "clouds", "sky", "hands", "wind">>)) >>)

MockPkg ==
    ListRaw(<< DictE([scene_number |-> IntV(1), narrative_beat |-> StrV("Intro (Mock)"),
                      visual_prompt |-> StrV("Cinematic shot"),
                      duration_seconds |-> IntV(5)]) >>)

MockResponse(v) == IF v = "root" THEN MockRoot ELSE MockPkg

\* ------------------------------------------------------- backend routines
\* What the remote backend does with the one request it is sent: the client
\* call raises, the response carries no text, the text is not JSON, or the
\* text decodes to a document.
BackendOutcomes ==
    {[k |-> x, raw |-> NumRaw] : x \in {"api_error", "no_text", "bad_json"}}
    \cup {[k |-> "json", raw |-> r] : r \in RawInputs}

\* the client call followed by json.loads of the response text
Decode(o) ==
    IF o.k = "json" THEN Ok(o.raw)
    ELSE IF o.k = "api_error" THEN Raise("APIError")
    ELSE IF o.k = "no_text" THEN Raise("TypeError")
    ELSE Raise("JSONDecodeError")

\* _generate_with_gemini (both variants): the decoded document as it is
GenerateWithGemini(o) == Decode(o)

\* src/director.py _generate_with_groq: unwrap, accept a list, else ValueError
GenerateWithGroqRoot(o) ==
    LET d == Decode(o)
    IN  IF ~d.ok THEN d
        ELSE IF d.val.kind = "dict" /\ d.val.hasScenes THEN Ok(ListRaw(d.val.inner))
        ELSE IF d.val.kind = "list" THEN d
        ELSE Raise("ValueError")

\* src/src/director.py _generate_with_openai and _generate_with_groq:
\* data.get('scenes', data) if isinstance(data, dict) else data
GenerateChatPkg(o) ==
    LET d == Decode(o)
    IN  IF ~d.ok THEN d
        ELSE IF d.val.kind = "dict" /\ d.val.hasScenes THEN Ok(ListRaw(d.val.inner))
        ELSE d

\* the if/elif/else on self.provider in process_script
RoutineFor(v, p) ==
    IF v = "root" THEN (IF p = "groq" THEN "groq" ELSE "gemini")
    ELSE IF p = "openai" THEN "openai"
    ELSE IF p = "groq" THEN "groq"
    ELSE "gemini"

Generate(v, routine, o) ==
    IF routine = "gemini" THEN GenerateWithGemini(o)
    ELSE IF v = "root" THEN GenerateWithGroqRoot(o)
    ELSE GenerateChatPkg(o)

\* process_script with the normalizer call moved below the try block
ProcessScriptNormalizeOutsideTry(v, p, hasClient, o) ==
    IF ~hasClient
    THEN [raised |-> FALSE, val |-> MockResponse(v), calls |-> <<>>, caught |-> ""]
    ELSE LET routine == RoutineFor(v, p)
             g == Generate(v, routine, o)
             n == IF g.ok THEN PostProcess(v, g.val) ELSE g
         IN  [raised |-> g.ok /\ ~n.ok,
              val |-> IF n.ok THEN n.val ELSE MockResponse(v),
              calls |-> <<routine>>,
              caught |-> IF g.ok THEN "" ELSE g.err]

\* process_script without the `if not self.client` early return
ProcessScriptNoClientGuard(v, p, hasClient, o) ==
    LET routine == RoutineFor(v, p)
        g == IF hasClient THEN Generate(v, routine, o) ELSE Raise("AttributeError")
        n == IF g.ok THEN PostProcess(v, g.val) ELSE g
    IN  [raised |-> FALSE,
         val |-> IF n.ok THEN n.val ELSE MockResponse(v),
         calls |-> <<routine>>,
         caught |-> n.err]

\* process_script calling the routine a second time when the first call fails
ProcessScriptRetry(v, p, hasClient, o) ==
    IF ~hasClient
    THEN [raised |-> FALSE, val |-> MockResponse(v), calls |-> <<>>, caught |-> ""]
    ELSE LET routine == RoutineFor(v, p)
             g == Generate(v, routine, o)
             n == IF g.ok THEN PostProcess(v, g.val) ELSE g
         IN  [raised |-> FALSE,
              val |-> IF n.ok THEN n.val ELSE MockResponse(v),
              calls |-> IF g.ok THEN <<routine>> ELSE <<routine, routine>>,
              caught |-> n.err]

\* VirtualDirector.process_script.  raised: an exception left the method;
\* val: the value returned; calls: the backend routines invoked, in order;
\* caught: the exception the except-clause swallowed ("" when none).
ProcessScript(v, p, hasClient, o) ==
    IF ~hasClient
    THEN [raised |-> FALSE, val |-> MockResponse(v), calls |-> <<>>, caught |-> ""]
    ELSE LET routine == RoutineFor(v, p)
             g == Generate(v, routine, o)
             n == IF g.ok THEN PostProcess(v, g.val) ELSE g
         IN  [raised |-> FALSE,
              val |-> IF n.ok THEN n.val ELSE MockResponse(v),
              calls |-> <<routine>>,
              caught |-> n.err]

\* VirtualDirector.__init__ with _init_gemini / _init_groq / _init_openai:
\* a client exists iff the provider's library and key are there and a client
\* constructor succeeds.  The root Gemini path tries a second model name
\* when the first constructor raises; every other path tries once.
ClientAttempts(v, p) == IF v = "root" /\ RoutineFor(v, p) = "gemini" THEN 2 ELSE 1

InitClient(v, p, hasLib, hasKey, ctorFailures) ==
    hasLib /\ hasKey /\ ctorFailures < ClientAttempts(v, p)

\* --------------------------------------------------------------- exporter
\* to_csv: the preferred column order
OrderedFields ==
    <<"scene_number", "narrative_beat", "visual_prompt", "camera_movement",
      "mood_lighting", "duration_seconds", "transition_type", "motion_intensity",
      "key_elements", "audio_suggestion">>

\* sorted() over the key names that occur in the model, in lexicographic order
LexOrder ==
    <<"audio_suggestion", "camera_movement", "character_details",
      "continuity_notes", "duration_seconds", "key_elements", "mood_lighting",
      "motion_intensity", "narrative_beat", "scene_number", "transition_type",
      "visual_prompt">>

SeqElems(q) == {q[i] : i \in 1..Len(q)}

\* fieldnames.update(scene.keys()) over all scenes
KeysOf(r) == UNION {DOMAIN r.iter[i].f : i \in 1..Len(r.iter)}

\* every key in sorted order, the known fields not put first
CsvFieldnamesSorted(r) ==
    LET Occurs(k) == k \in KeysOf(r)
    IN  SelectSeq(LexOrder, Occurs)

\* to_csv lines 47-48: known fields that occur, then the other keys sorted
CsvFieldnames(r) ==
    LET keys == KeysOf(r)
        Known(k) == k \in keys
        Extra(k) == k \in keys /\ k \notin SeqElems(OrderedFields)
    IN  SelectSeq(OrderedFields, Known) \o SelectSeq(LexOrder, Extra)

\* ', '.join(str(v) for v in value)
RECURSIVE JoinStr(_)
JoinStr(l) ==
    IF l = <<>> THEN ""
    ELSE IF Len(l) = 1 THEN l[1]
    ELSE l[1] \o ", " \o JoinStr(Tail(l))

\* str(value) as an f-string renders it
PyStr(v) ==
    IF v.kind = "int" THEN ToString(v.n)
    ELSE IF v.kind = "str" THEN v.s
    ELSE IF v.kind = "null" THEN "None"
    ELSE "[" \o JoinStr([i \in 1..Len(v.l) |-> "'" \o v.l[i] \o "'"]) \o "]"

\* a row value written as Python prints it: the list not joined
CsvCellRepr(v) == PyStr(v)

\* the text csv.DictWriter writes for a row value: a list was joined by
\* to_csv, None becomes the empty string, anything else str(value)
CsvCell(v) ==
    IF v.kind = "list" THEN JoinStr(v.l)
    ELSE IF v.kind = "null" THEN ""
    ELSE IF v.kind = "int" THEN ToString(v.n)
    ELSE v.s

\* writer.writerow(row): one cell per column, restval '' for a missing key
CsvRow(f, fieldnames) ==
    [c \in 1..Len(fieldnames) |->
        IF fieldnames[c] \in DOMAIN f THEN CsvCell(f[fieldnames[c]]) ELSE ""]

\* json.dump writing a list the way the CSV export does, as one string
EncodeJFlat(v) ==
    [t |-> IF v.kind = "int" THEN "number"
           ELSE IF v.kind = "null" THEN "null"
           ELSE "string",
     n |-> v.n, s |-> IF v.kind = "list" THEN JoinStr(v.l) ELSE v.s,
     items |-> <<>>]

\* json.dump of a field value: the JSON token it is written as
EncodeJ(v) ==
    [t |-> IF v.kind = "int" THEN "number"
           ELSE IF v.kind = "str" THEN "string"
           ELSE IF v.kind = "list" THEN "array"
           ELSE "null",
     n |-> v.n, s |-> v.s,
     items |-> [i \in 1..Len(v.l) |-> [t |-> "string", s |-> v.l[i]]]]

\* json.load of a token: the Python value it is read as
DecodeJ(j) ==
    IF j.t = "number" THEN IntV(j.n)
    ELSE IF j.t = "string" THEN StrV(j.s)
    ELSE IF j.t = "array" THEN ListV([i \in 1..Len(j.items) |-> j.items[i].s])
    ELSE NullV

EncodeObject(f) == [k \in DOMAIN f |-> EncodeJ(f[k])]

DecodeObject(o) == [k \in DOMAIN o |-> DecodeJ(o[k])]

\* s.get('duration_seconds', 5)
DurationOf(f) ==
    IF "duration_seconds" \in DOMAIN f THEN f["duration_seconds"] ELSE IntV(DefaultDuration)

\* sum(...) over the durations raises TypeError unless all are numbers
DurationsNumeric(r) ==
    \A i \in 1..Len(r.iter) : DurationOf(r.iter[i].f).kind = "int"

RECURSIVE SumDurationsFrom(_, _)
SumDurationsFrom(r, i) ==
    IF i > Len(r.iter) THEN 0
    ELSE DurationOf(r.iter[i].f).n + SumDurationsFrom(r, i + 1)

SumDurations(r) == SumDurationsFrom(r, 1)

\* {**a, **b}
Merge(a, b) == [k \in (DOMAIN a) \cup (DOMAIN b) |-> IF k \in DOMAIN b THEN b[k] ELSE a[k]]

\* bool(value)
TruthyValue(v) ==
    IF v.kind = "int" THEN v.n # 0
    ELSE IF v.kind = "str" THEN v.s # ""
    ELSE IF v.kind = "list" THEN v.l # <<>>
    ELSE FALSE

\* the technical fields of the markdown table, in the order of the if-statements
TableFields ==
    <<"camera_movement", "mood_lighting", "duration_seconds", "transition_type",
      "motion_intensity", "audio_suggestion">>

\* to_markdown lines 103-148: the section of one scene
MarkdownSection(f) ==
    LET Present(k) == k \in DOMAIN f
        shown == SelectSeq(TableFields, Present)
    IN  [heading |-> IF "scene_number" \in DOMAIN f THEN PyStr(f["scene_number"]) ELSE "?",
         beat |-> IF "narrative_beat" \in DOMAIN f THEN <<PyStr(f["narrative_beat"])>> ELSE <<>>,
         prompt |-> IF "visual_prompt" \in DOMAIN f THEN <<PyStr(f["visual_prompt"])>> ELSE <<>>,
         tableHead |-> <<"| Aspect | Details |", "|--------|---------|">>,
         table |-> [i \in 1..Len(shown) |->
                       <<shown[i],
                         IF shown[i] = "duration_seconds"
                         THEN PyStr(f[shown[i]]) \o " seconds"
                         ELSE PyStr(f[shown[i]])>>],
         elements |-> IF "key_elements" \in DOMAIN f /\ TruthyValue(f["key_elements"])
                      THEN (IF f["key_elements"].kind = "list"
                            THEN f["key_elements"].l
                            ELSE <<PyStr(f["key_elements"])>>)
                      ELSE <<>>]

\* What a written file holds.  One record shape for the three formats.
CsvFile(header, rows) ==
    [fmt |-> "csv", header |-> header, rows |-> rows,
     metadata |-> EmptyScene, scenes |-> <<>>, count |-> Len(rows), total |-> 0, sections |-> <<>>]

JsonFile(meta, objs) ==
    [fmt |-> "json", header |-> <<>>, rows |-> <<>>,
     metadata |-> meta, scenes |-> objs, count |-> Len(objs), total |-> 0, sections |-> <<>>]

MarkdownFile(meta, n, total, sections) ==
    [fmt |-> "markdown", header |-> <<>>, rows |-> <<>>,
     metadata |-> meta, scenes |-> <<>>, count |-> n, total |-> total, sections |-> sections]

NoFiles == [p \in {} |-> CsvFile(<<>>, <<>>)]

\* to_csv lines 56-61: the dict `row` built from one scene
CsvRowDict(f) ==
    [k \in DOMAIN f |-> IF f[k].kind = "list" THEN StrV(JoinStr(f[k].l)) ELSE f[k]]

\* the loop storing the joined text in the scene itself instead of in row
SceneAfterRowInPlace(f) == CsvRowDict(f)

\* to_csv lines 56-62 assign into row only: the scene is read, not written
SceneAfterRow(f) == f

\* self.scenes after to_csv
ScenesAfterToCsv(r) ==
    IF Len(r.iter) = 0 THEN r
    ELSE [r EXCEPT !.iter = [i \in 1..Len(r.iter) |-> DictE(SceneAfterRow(r.iter[i].f))]]

\* self.scenes after the export calls of a format; to_json and to_markdown
\* only read the scenes
ScenesAfterExport(r, format) ==
    IF format \in {"csv", "all"} THEN ScenesAfterToCsv(r) ELSE r

\* SceneExporter.to_csv: nothing is written for an empty sequence
ToCsv(fs, r, path) ==
    IF Len(r.iter) = 0 THEN fs
    ELSE LET fieldnames == CsvFieldnames(r)
         IN  Put(fs, path,
                 CsvFile(fieldnames,
                         [i \in 1..Len(r.iter) |-> CsvRow(r.iter[i].f, fieldnames)]))

\* SceneExporter.to_json (the sum raises before the file is opened)
ToJsonMeta(r, meta) ==
    Merge([generated_at |-> StrV("now"),
           total_scenes |-> IntV(Len(r.iter)),
           total_duration_seconds |-> IntV(SumDurations(r))],
          meta)

ToJson(fs, r, meta, path) ==
    IF ~DurationsNumeric(r) THEN fs
    ELSE Put(fs, path,
             JsonFile(EncodeObject(ToJsonMeta(r, meta)),
                      [i \in 1..Len(r.iter) |-> EncodeObject(r.iter[i].f)]))

\* SceneExporter.to_markdown
ToMarkdown(fs, r, meta, path) ==
    IF ~DurationsNumeric(r) THEN fs
    ELSE Put(fs, path,
             MarkdownFile([k \in DOMAIN meta |-> [t |-> "string", n |-> 0,
                                                  s |-> PyStr(meta[k]), items |-> <<>>]],
                          Len(r.iter), SumDurations(r),
                          [i \in 1..Len(r.iter) |-> MarkdownSection(r.iter[i].f)]))

\* to_json and to_markdown raise TypeError on a non-numeric duration
ExportRaises(r, format) == format # "csv" /\ ~DurationsNumeric(r)

\* SceneExporter.export_all: the three exports in order; the returned
\* mapping lists all three paths
ExportAll(fs, r, meta, base) ==
    ToMarkdown(ToJson(ToCsv(fs, r, base \o ".csv"), r, meta, base \o ".json"),
               r, meta, base \o ".md")

ExportAllPaths(base) ==
    [csv |-> base \o ".csv", json |-> base \o ".json", markdown |-> base \o ".md"]

\* json.load of a file written by to_json: a mapping with the keys
\* "metadata" and "scenes"
ParseJsonFile(c) ==
    EnvelopeRaw([i \in 1..Len(c.scenes) |-> DictE(DecodeObject(c.scenes[i]))])

\* main lines 128-136: what the load-file path makes of a decoded document
LoadDocument(d) ==
    IF d.kind = "dict" /\ d.hasScenes THEN Ok(ListRaw(d.inner))
    ELSE IF d.kind = "list" THEN Ok(d)
    ELSE Raise("InvalidFormat")

\* ------------------------------------------------------------- statistics
\* Python's / yields an IEEE-754 double.  A double quotient t/n is kept as
\* the exact rational it is: (num * 2^shift + err) / (den * 2^shift), where
\* shift puts the quotient's last mantissa bit at the units place and err is
\* the rounding error of the 53-bit mantissa times den.
MantissaBits == 52

RECURSIVE Log2Up(_, _, _)
Log2Up(t, n, e) == IF t >= n * 2^(e + 1) THEN Log2Up(t, n, e + 1) ELSE e

RECURSIVE Log2Down(_, _, _)
Log2Down(t, n, e) == IF t * 2^(0 - e) < n THEN Log2Down(t, n, e - 1) ELSE e

\* floor(log2(t/n)) for t, n > 0: the exponent of the double nearest t/n
FloorLog2(t, n) == IF t >= n THEN Log2Up(t, n, 0) ELSE Log2Down(t, n, 0)

\* (rho * 2^k) mod n
RECURSIVE DoubleMod(_, _, _)
DoubleMod(rho, n, k) == IF k = 0 THEN rho ELSE DoubleMod((2 * rho) % n, n, k - 1)

\* t // n, the integer quotient, in the same representation
FloorDivide(t, n) ==
    LET whole == (t \div n) * n
    IN  [num |-> whole, den |-> n, err |-> 0,
         shift |-> IF whole = 0 THEN 0 ELSE MantissaBits - FloorLog2(whole, n)]

\* t / n in double arithmetic, t >= 0 and n > 0 integers: the mantissa is
\* rounded to nearest (a tie needs n to have more than 52 factors of two)
TrueDivide(t, n) ==
    IF t = 0 THEN [num |-> 0, den |-> n, err |-> 0, shift |-> 0]
    ELSE LET k == MantissaBits - FloorLog2(t, n)
             rho == DoubleMod(t % n, n, k)
         IN  [num |-> t, den |-> n,
              err |-> IF 2 * rho <= n THEN 0 - rho ELSE n - rho,
              shift |-> k]

\* q * q.den in double arithmetic, as an integer base and a number of units
\* in the last place of base that the rounded product lies away from it.
\* Below a power of two the doubles are twice as dense.
TimesCount(q) ==
    IF q.num = 0 THEN [base |-> 0, ulps |-> 0]
    ELSE LET et == FloorLog2(q.num, 1)
             u == 2^(et - (MantissaBits - q.shift))
             mag == IF q.err < 0 THEN 0 - q.err ELSE q.err
             dense == q.err < 0 /\ q.num = 2^et
         IN  [base |-> q.num,
              ulps |-> IF (IF dense THEN 4 * mag <= u ELSE 2 * mag <= u) THEN 0
                       ELSE IF q.err > 0 THEN 1 ELSE 0 - 1]

\* scene.get(key) with no default: None for a record without the field
CountKeyNone(f, key) == IF key \in DOMAIN f THEN f[key] ELSE NullV

\* scene.get(key, 'unknown'), the dictionary key of a distribution
CountKey(f, key) == IF key \in DOMAIN f THEN f[key] ELSE StrV("unknown")

\* motion_counts / transition_counts
Distribution(r, key) ==
    LET names == {CountKey(r.iter[i].f, key) : i \in 1..Len(r.iter)}
    IN  [x \in names |->
            Cardinality({i \in 1..Len(r.iter) : CountKey(r.iter[i].f, key) = x})]

\* the keys of motion_counts / transition_counts in the order the loop
\* inserted them (a dict keeps insertion order)
DistributionOrder(r, key) ==
    LET upTo[i \in 0..Len(r.iter)] ==
            IF i = 0 THEN <<>>
            ELSE LET k == CountKey(r.iter[i].f, key)
                 IN  IF k \in SeqElems(upTo[i - 1]) THEN upTo[i - 1]
                     ELSE Append(upTo[i - 1], k)
    IN  upTo[Len(r.iter)]

NoStats ==
    [empty |-> TRUE, total_scenes |-> 0, total_duration_seconds |-> 0,
     total_duration_minutes |-> TrueDivide(0, 60),
     average_scene_duration |-> TrueDivide(0, 1),
     motion_distribution |-> <<>>, transition_distribution |-> <<>>,
     motion_order |-> <<>>, transition_order |-> <<>>]

\* exporters.calculate_statistics for a sequence of mappings with numeric
\* durations
CalculateStatistics(r) ==
    IF Len(r.iter) = 0 THEN NoStats
    ELSE [empty |-> FALSE,
          total_scenes |-> Len(r.iter),
          total_duration_seconds |-> SumDurations(r),
          total_duration_minutes |-> TrueDivide(SumDurations(r), 60),
          average_scene_duration |-> TrueDivide(SumDurations(r), Len(r.iter)),
          motion_distribution |-> Distribution(r, "motion_intensity"),
          transition_distribution |-> Distribution(r, "transition_type"),
          motion_order |-> DistributionOrder(r, "motion_intensity"),
          transition_order |-> DistributionOrder(r, "transition_type")]

\* ------------------------------------------------------- video generators
\* VeoVideoGenerator (video_generator.py), GeminiVeoGenerator and
\* OpenAISoraGenerator (generators/), each with the backend its constructor
\* ended up with.
GeneratorConfigs ==
    {[gen |-> "veo_root", mode |-> m] : m \in {"gemini", "vertex", "none"}}
    \cup {[gen |-> "veo_pkg", mode |-> m] : m \in {"gemini", "none"}}
    \cup {[gen |-> "sora", mode |-> "none"]}

\* What the video API does with one request: a payload with bytes, a result
\* without bytes, or an exception.
ApiOutcomes == {"bytes", "empty", "api_error"}

\* os.path.join(output_dir, f"scene_{scene_number}.mp4")
ScenePath(f) ==
    "generated_videos/scene_"
        \o PyStr(IF "scene_number" \in DOMAIN f THEN f["scene_number"] ELSE IntV(1))
        \o ".mp4"

\* generate_scene_video of each generator: raised, or the path ("" for None)
GenerateSceneVideo(g, f, api) ==
    IF g.gen = "sora" THEN
        [raised |-> "scene_number" \notin DOMAIN f, path |-> ""]
    ELSE IF g.mode = "gemini" THEN
        [raised |-> FALSE, path |-> IF api = "bytes" THEN ScenePath(f) ELSE ""]
    ELSE IF g.mode = "vertex" THEN
        [raised |-> FALSE, path |-> IF api = "api_error" THEN "" ELSE ScenePath(f)]
    ELSE
        [raised |-> FALSE, path |-> ""]

\* what generate_batch does with the value a scene call returned
Collect(g, generated, path) ==
    IF g.gen # "sora" /\ path # "" THEN Append(generated, path) ELSE generated

\* generate_batch from scene i on: the loop run to its end
RECURSIVE BatchFrom(_, _, _, _, _)
BatchFrom(g, r, apis, i, generated) ==
    IF i > Len(r.iter) THEN [raised |-> FALSE, paths |-> generated]
    ELSE LET res == GenerateSceneVideo(g, r.iter[i].f, apis[i])
         IN  IF res.raised THEN [raised |-> TRUE, paths |-> generated]
             ELSE BatchFrom(g, r, apis, i + 1, Collect(g, generated, res.path))

GenerateBatch(g, r, apis) == BatchFrom(g, r, apis, 1, <<>>)

\* ------------------------------------------------------------------ main
\* display_scenes_table and display_statistics (with calculate_statistics)
\* run outside any try block; they raise on a scene that is not a mapping,
\* on a text column that is not a str, and on a duration that is not a
\* number.
HasKind(f, k, kinds) == k \in DOMAIN f => f[k].kind \in kinds

DisplayRaises(r) ==
    \E i \in 1..Len(r.iter) :
        LET e == r.iter[i]
        IN  \/ e.t # "dict"
            \/ ~HasKind(e.f, "narrative_beat", {"str"})
            \/ ~HasKind(e.f, "visual_prompt", {"str"})
            \/ ~HasKind(e.f, "motion_intensity", {"str"})

StatisticsRaises(r) ==
    \E i \in 1..Len(r.iter) :
        LET e == r.iter[i]
        IN  \/ e.t # "dict"
            \/ ~HasKind(e.f, "duration_seconds", {"int"})
            \/ ~HasKind(e.f, "motion_intensity", {"str", "int", "null"})
            \/ ~HasKind(e.f, "transition_type", {"str", "int", "null"})

\* `if not scenes` taking every sequence for a non-empty one
TruthyAlways(r) == TRUE

\* Python truthiness of the value main holds in `scenes`
Truthy(r) == r.kind = "num" \/ Len(r.iter) > 0

\* The documents a load-file can hold, beside being absent or not JSON.
FileStates ==
    {[k |-> x, raw |-> NumRaw] : x \in {"missing", "bad_json"}}
    \cup {[k |-> "json", raw |-> r] : r \in RawInputs}

NoResult == [raised |-> FALSE, val |-> ListRaw(<<>>), calls |-> <<>>, caught |-> ""]

\* main lines 187-195: the metadata handed to the exporter
MainMetadata(a, prov, doc) ==
    [style |-> StrV("cinematic"),
     provider |-> StrV(prov),
     model |-> StrV(IF a.load_file
                    THEN (IF doc.kind = "dict" THEN "manual-load" ELSE "manual-list")
                    ELSE IF prov = "groq" THEN "llama-3.3-70b-versatile"
                    ELSE "gemini-2.0-flash-exp"),
     source_file |-> StrV(IF a.load_file /\ ~a.input_file THEN "sheet.json" ELSE "story.txt")]

\* --format
Formats == {"csv", "json", "markdown", "all"}

\* --output
OutputBase == "production_sheet"

\* main lines 203-218: the files named by the chosen format
ExportedPaths(format) ==
    IF format = "all" THEN {ExportAllPaths(OutputBase)[k] : k \in {"csv", "json", "markdown"}}
    ELSE IF format = "csv" THEN {OutputBase \o ".csv"}
    ELSE IF format = "json" THEN {OutputBase \o ".json"}
    ELSE {OutputBase \o ".md"}

\* main lines 203-218: the export calls of the chosen format
RunExport(fs, r, meta, format) ==
    IF format = "all" THEN ExportAll(fs, r, meta, OutputBase)
    ELSE IF format = "csv" THEN ToCsv(fs, r, OutputBase \o ".csv")
    ELSE IF format = "json" THEN ToJson(fs, r, meta, OutputBase \o ".json")
    ELSE ToMarkdown(fs, r, meta, OutputBase \o ".md")

\* What the video stage of main can meet: not requested, the import
\* failing, or a VeoVideoGenerator with one of its backends and a video API
\* that behaves the same for every request.
ApiRuns(n) == {[i \in 1..n |-> a] : a \in ApiOutcomes}

VideoRuns(n) ==
    {[requested |-> FALSE, importOk |-> TRUE, mode |-> "none", apis |-> [i \in 1..n |-> "bytes"]],
     [requested |-> TRUE, importOk |-> FALSE, mode |-> "none", apis |-> [i \in 1..n |-> "bytes"]],
     [requested |-> TRUE, importOk |-> TRUE, mode |-> "none", apis |-> [i \in 1..n |-> "bytes"]],
     [requested |-> TRUE, importOk |-> TRUE, mode |-> "vertex", apis |-> [i \in 1..n |-> "bytes"]]}
    \cup {[requested |-> TRUE, importOk |-> TRUE, mode |-> "gemini", apis |-> a] : a \in ApiRuns(n)}

NoInput == [k |-> "none", raw |-> NumRaw]

NoExport == [format |-> "", paths |-> {}]

NoVideo == [requested |-> FALSE, started |-> FALSE, failed |-> FALSE, files |-> <<>>]

VARIABLES
    variant,        \* which Director module is imported
    args,           \* parsed command line: load_file / input_file given
    provider,       \* args.provider, the Director's provider tag
    pc,             \* position of main
    env,            \* what the Director's constructor found: library, key, constructor failures
    director,       \* "none", or the constructed Director: has a client or not
    backend,        \* what the backend did with the request of this run
    call,           \* outcome of the process_script invocation
    scenes,         \* main's local `scenes`
    exporterScenes, \* the sequence handed to SceneExporter
    input,          \* what main found at the path it was given
    metadata,       \* the metadata handed to SceneExporter
    files,          \* the export files on disk
    exported,       \* main's chosen format and its exported_files
    video,          \* main's video stage
    raw,            \* normalizer harness: the argument
    normOut,        \* normalizer harness: outcome of _post_process_scenes(raw)
    bareOut,        \* normalizer harness: outcome on the bare list of an envelope
    argAfter,       \* normalizer harness: the argument object after the call
    returnsArg,     \* normalizer harness: the object returned is the argument
    againOut,       \* normalizer harness: outcome of a second pass over the output
    npc,            \* normalizer harness: position
    epc,            \* exporter harness: position
    returned,       \* exporter harness: the paths the last export call returned or was given
    reloaded,       \* exporter harness: outcome of loading the written JSON file again
    called,         \* exporter harness: the operations called so far
    stats,          \* statistics harness: result of calculate_statistics
    spc,            \* statistics harness: position
    generator,      \* batch harness: the generator and its backend
    parallelCount,  \* batch harness: the parallel_count argument
    apiLog,         \* batch harness: what the API did for each scene call so far
    running,        \* batch harness: scene calls in progress
    finished,       \* batch harness: scene calls that returned
    generated,      \* batch harness: generate_batch's result list
    bpc             \* batch harness: position of generate_batch

vars == <<variant, args, provider, pc, env, director, backend, call, scenes,
          exporterScenes, input, metadata, files, exported, video,
          raw, normOut, bareOut, argAfter, returnsArg, againOut, npc, epc, returned, reloaded, called,
          stats, spc,
          generator, parallelCount, apiLog, running, finished, generated, bpc>>

mainVars == <<args, provider, pc, env, director, backend, call, scenes, exporterScenes,
              input, metadata, files, exported, video>>

normVars == <<raw, normOut, bareOut, argAfter, returnsArg, againOut, npc>>

exportVars == <<epc, returned, reloaded, called>>

statVars == <<stats, spc>>

batchVars == <<generator, parallelCount, apiLog, running, finished, generated, bpc>>

harnessVars == <<normVars, exportVars, statVars, batchVars>>

NoOutcome == Raise("")

NoEnv == [hasLib |-> FALSE, hasKey |-> FALSE, ctorFailures |-> 0]

NoBackend == [k |-> "none", raw |-> NumRaw]

\* a Director without a client sends the backend no request
NotAsked == [k |-> "not_asked", raw |-> NumRaw]

\* the variables of main before main has run
MainIdle ==
    /\ env = NoEnv
    /\ director = "none"
    /\ backend = NoBackend
    /\ call = NoResult
    /\ scenes = ListRaw(<<>>)
    /\ exporterScenes = ListRaw(<<>>)
    /\ input = NoInput
    /\ metadata = EmptyScene
    /\ files = NoFiles
    /\ exported = NoExport
    /\ video = NoVideo

NormIdle ==
    /\ raw = NumRaw
    /\ normOut = NoOutcome
    /\ bareOut = NoOutcome
    /\ argAfter = NumRaw
    /\ returnsArg = FALSE
    /\ againOut = NoOutcome
    /\ npc = "idle"

ExportIdle ==
    /\ epc = "idle"
    /\ returned = {}
    /\ reloaded = NoOutcome
    /\ called = {}

StatIdle ==
    /\ stats = NoStats
    /\ spc = "idle"

BatchIdle ==
    /\ generator = [gen |-> "veo_root", mode |-> "none"]
    /\ parallelCount = 1
    /\ apiLog = <<>>
    /\ running = {}
    /\ finished = {}
    /\ generated = <<>>
    /\ bpc = "idle"

Init ==
    /\ variant \in Variants
    /\ args \in [load_file : BOOLEAN, input_file : BOOLEAN]
    /\ provider \in Providers
    /\ pc = "start"
    /\ MainIdle
    /\ NormIdle
    /\ ExportIdle
    /\ StatIdle
    /\ BatchIdle

\* main lines 117-141: PATH A, the load-file
MainLoad ==
    /\ pc = "start"
    /\ args.load_file
    /\ \E file \in FileStates :
        /\ input' = file
        /\ IF file.k = "json" /\ LoadDocument(file.raw).ok
           THEN pc' = "have_scenes" /\ scenes' = LoadDocument(file.raw).val
           ELSE pc' = "exit" /\ UNCHANGED scenes
    /\ UNCHANGED <<variant, args, provider, env, director, backend, call,
                   exporterScenes, metadata, files, exported, video, harnessVars>>

\* PATH B entered with `if` in place of `elif`: the story input is
\* processed whether or not a load-file was given
MainConstructIgnoringLoad ==
    /\ pc = "start"
    /\ args.input_file
    /\ \E hasLib \in BOOLEAN, hasKey \in BOOLEAN,
          ctorFailures \in 0..ClientAttempts(variant, provider) :
            /\ input' = [k |-> "story", raw |-> NumRaw]
            /\ pc' = "constructed"
            /\ env' = [hasLib |-> hasLib, hasKey |-> hasKey, ctorFailures |-> ctorFailures]
            /\ director' = IF InitClient(variant, provider, hasLib, hasKey, ctorFailures)
                           THEN "client" ELSE "mock"
    /\ UNCHANGED <<variant, args, provider, backend, call, scenes, exporterScenes,
                   metadata, files, exported, video, harnessVars>>

\* main lines 144-164: PATH B up to the construction of the Director
MainConstruct ==
    /\ pc = "start"
    /\ ~args.load_file
    /\ args.input_file
    /\ \E exists \in BOOLEAN, hasLib \in BOOLEAN, hasKey \in BOOLEAN,
          ctorFailures \in 0..ClientAttempts(variant, provider) :
        IF ~exists THEN
            /\ input' = [k |-> "missing", raw |-> NumRaw]
            /\ pc' = "exit" /\ UNCHANGED <<env, director>>
        ELSE
            /\ input' = [k |-> "story", raw |-> NumRaw]
            /\ pc' = "constructed"
            /\ env' = [hasLib |-> hasLib, hasKey |-> hasKey, ctorFailures |-> ctorFailures]
            /\ director' = IF InitClient(variant, provider, hasLib, hasKey, ctorFailures)
                           THEN "client" ELSE "mock"
    /\ UNCHANGED <<variant, args, provider, backend, call, scenes, exporterScenes,
                   metadata, files, exported, video, harnessVars>>

\* main lines 166-167: scenes = director.process_script(story_text, ...)
MainProcess ==
    /\ pc = "constructed"
    /\ \E o \in IF director = "client" THEN BackendOutcomes ELSE {NotAsked} :
        LET res == ProcessScript(variant, provider, director = "client", o)
        IN  /\ backend' = o
            /\ call' = res
            /\ IF res.raised
               THEN pc' = "crashed" /\ UNCHANGED scenes
               ELSE pc' = "have_scenes" /\ scenes' = res.val
    /\ UNCHANGED <<variant, args, provider, env, director, exporterScenes,
                   input, metadata, files, exported, video, harnessVars>>

\* main lines 169-172: neither --input nor --load-file
MainNoArgs ==
    /\ pc = "start"
    /\ ~args.load_file
    /\ ~args.input_file
    /\ pc' = "exit"
    /\ UNCHANGED <<variant, args, provider, env, director, backend, call, scenes,
                   exporterScenes, input, metadata, files, exported, video, harnessVars>>

\* main lines 174-184: the empty check, the table and the statistics panel
MainShow ==
    /\ pc = "have_scenes"
    /\ pc' = IF ~Truthy(scenes) THEN "exit"
             ELSE IF DisplayRaises(scenes) \/ StatisticsRaises(scenes) THEN "crashed"
             ELSE "shown"
    /\ UNCHANGED <<variant, args, provider, env, director, backend, call, scenes,
                   exporterScenes, input, metadata, files, exported, video, harnessVars>>

\* main lines 186-222: exporter = SceneExporter(scenes, metadata) and the exports
MainExport ==
    /\ pc = "shown"
    /\ \E format \in Formats :
        LET meta == MainMetadata(args, provider, input.raw)
        IN  /\ scenes' = ScenesAfterExport(scenes, format)
            /\ exporterScenes' = ScenesAfterExport(scenes, format)
            /\ metadata' = meta
            /\ files' = RunExport(files, scenes, meta, format)
            /\ IF ExportRaises(scenes, format)
               THEN pc' = "crashed" /\ exported' = [format |-> format, paths |-> {}]
               ELSE pc' = "exported"
                    /\ exported' = [format |-> format, paths |-> ExportedPaths(format)]
    /\ UNCHANGED <<variant, args, provider, env, director, backend, call,
                   input, video, harnessVars>>

\* the video stage run ahead of the export stage
MainVideosBeforeExport ==
    /\ pc = "shown"
    /\ video = NoVideo
    /\ \E run \in VideoRuns(Len(scenes.iter)) :
        LET res == GenerateBatch([gen |-> "veo_root", mode |-> run.mode], scenes, run.apis)
        IN  video' = IF ~run.requested THEN NoVideo
                     ELSE IF ~run.importOk
                     THEN [requested |-> TRUE, started |-> FALSE, failed |-> TRUE, files |-> <<>>]
                     ELSE [requested |-> TRUE, started |-> TRUE, failed |-> res.raised,
                           files |-> IF res.raised THEN <<>> ELSE res.paths]
    /\ UNCHANGED <<variant, args, provider, pc, env, director, backend, call, scenes,
                   exporterScenes, input, metadata, files, exported, harnessVars>>

\* main lines 227-259: the optional video stage; every exception of the
\* import, the constructor and generate_batch is caught
MainVideos ==
    /\ pc = "exported"
    /\ \E run \in VideoRuns(Len(scenes.iter)) :
        LET res == GenerateBatch([gen |-> "veo_root", mode |-> run.mode], scenes, run.apis)
        IN  video' = IF ~run.requested THEN NoVideo
                     ELSE IF ~run.importOk
                     THEN [requested |-> TRUE, started |-> FALSE, failed |-> TRUE, files |-> <<>>]
                     ELSE [requested |-> TRUE, started |-> TRUE, failed |-> res.raised,
                           files |-> IF res.raised THEN <<>> ELSE res.paths]
    /\ pc' = "done"
    /\ UNCHANGED <<variant, args, provider, env, director, backend, call, scenes,
                   exporterScenes, input, metadata, files, exported, harnessVars>>

Next ==
    \/ MainLoad
    \/ MainConstruct
    \/ MainProcess
    \/ MainNoArgs
    \/ MainShow
    \/ MainExport
    \/ MainVideos

Spec == Init /\ [][Next]_vars

\* ------------------------------------------------------ normalizer harness
\* _post_process_scenes applied directly to every raw document, and, for an
\* enveloped document, to the bare list it wraps.
InitNorm ==
    /\ variant \in Variants
    /\ raw \in RawInputs
    /\ normOut = NoOutcome
    /\ bareOut = NoOutcome
    /\ argAfter = raw
    /\ returnsArg = FALSE
    /\ againOut = NoOutcome
    /\ npc = "ready"
    /\ args = [load_file |-> FALSE, input_file |-> FALSE]
    /\ provider = "gemini"
    /\ pc = "idle"
    /\ MainIdle
    /\ ExportIdle
    /\ StatIdle
    /\ BatchIdle

normFrame == <<variant, raw, mainVars, exportVars, statVars, batchVars>>

\* out = director._post_process_scenes(raw)
NormalizeCall ==
    /\ npc = "ready"
    /\ normOut' = PostProcess(variant, raw)
    /\ argAfter' = ArgumentAfter(variant, raw)
    /\ returnsArg' = (PostProcess(variant, raw).ok /\ ReturnsArgument(variant, raw))
    /\ npc' = "normalized"
    /\ UNCHANGED <<bareOut, againOut, normFrame>>

\* director._post_process_scenes(raw["scenes"]) on a fresh copy of the document
NormalizeBare ==
    /\ npc = "normalized"
    /\ raw.kind = "dict" /\ raw.hasScenes
    /\ bareOut' = PostProcess(variant, ListRaw(raw.inner))
    /\ npc' = "compared"
    /\ UNCHANGED <<normOut, argAfter, returnsArg, againOut, normFrame>>

\* director._post_process_scenes(out)
NormalizeAgain ==
    /\ npc = "normalized"
    /\ normOut.ok
    /\ againOut' = PostProcess(variant, normOut.val)
    /\ npc' = "again"
    /\ UNCHANGED <<normOut, bareOut, argAfter, returnsArg, normFrame>>

NextNorm ==
    \/ NormalizeCall
    \/ NormalizeBare
    \/ NormalizeAgain

SpecNorm == InitNorm /\ [][NextNorm]_vars

\* -------------------------------------------------------- exporter harness
\* SceneExporter(scenes, metadata) constructed on every sequence of records
\* and every metadata mapping of the input sets; the export methods and
\* calculate_statistics are then called on it in any order, each at most
\* once, until one raises, or export_all is called on the fresh exporter; a JSON file that was just written is loaded
\* again the way main loads it.
ExportRecords ==
    RawScenes
    \cup {[scene_number |-> IntV(1), duration_seconds |-> IntV(5)],
          [scene_number |-> IntV(2), visual_prompt |-> StrV("x"),
           key_elements |-> ListV(<<"a", "b">>)],
          [scene_number |-> IntV(3), continuity_notes |-> StrV("same coat"),
           character_details |-> NullV, narrative_beat |-> StrV("Arrival")]}

ExportLists == UNION {[1..n -> {DictE(f) : f \in ExportRecords}] : n \in 0..MaxScenes}

MetadataInputs ==
    {EmptyScene,
     MainMetadata([load_file |-> FALSE, input_file |-> TRUE], "gemini", NumRaw),
     [total_scenes |-> IntV(99), total_duration_seconds |-> IntV(60),
      generated_at |-> StrV("x")]}

InitExport ==
    /\ variant = "root"
    /\ args = [load_file |-> FALSE, input_file |-> FALSE]
    /\ provider = "gemini"
    /\ pc = "idle"
    /\ env = NoEnv
    /\ director = "none"
    /\ backend = NoBackend
    /\ call = NoResult
    /\ scenes = ListRaw(<<>>)
    /\ \E es \in ExportLists : exporterScenes = ListRaw(es)
    /\ input = NoInput
    /\ metadata \in MetadataInputs
    /\ files = NoFiles
    /\ exported = NoExport
    /\ video = NoVideo
    /\ epc = "ready"
    /\ returned = {}
    /\ reloaded = NoOutcome
    /\ called = {}
    /\ stats = NoStats
    /\ spc = "idle"
    /\ NormIdle
    /\ BatchIdle

exportFrame == <<variant, args, provider, pc, env, director, backend, call, scenes,
                 input, metadata, exported, video, spc, normVars, batchVars>>

\* the exporter is there, no call on it has raised, and export_all, which
\* repeats the three export methods, has not been used on it
ExporterLive == epc \notin {"idle", "raised", "all_done"}

\* exporter.to_csv(path)
CallToCsv ==
    /\ ExporterLive /\ "to_csv" \notin called
    /\ called' = called \cup {"to_csv"}
    /\ files' = ToCsv(files, exporterScenes, OutputBase \o ".csv")
    /\ exporterScenes' = ScenesAfterToCsv(exporterScenes)
    /\ returned' = {OutputBase \o ".csv"}
    /\ epc' = "csv_done"
    /\ UNCHANGED <<reloaded, stats, exportFrame>>

\* exporter.to_json(path)
CallToJson ==
    /\ ExporterLive /\ "to_json" \notin called
    /\ called' = called \cup {"to_json"}
    /\ files' = ToJson(files, exporterScenes, metadata, OutputBase \o ".json")
    /\ IF ExportRaises(exporterScenes, "json")
       THEN epc' = "raised" /\ UNCHANGED returned
       ELSE epc' = "json_done" /\ returned' = {OutputBase \o ".json"}
    /\ UNCHANGED <<exporterScenes, reloaded, stats, exportFrame>>

\* exporter.to_markdown(path)
CallToMarkdown ==
    /\ ExporterLive /\ "to_markdown" \notin called
    /\ called' = called \cup {"to_markdown"}
    /\ files' = ToMarkdown(files, exporterScenes, metadata, OutputBase \o ".md")
    /\ IF ExportRaises(exporterScenes, "markdown")
       THEN epc' = "raised" /\ UNCHANGED returned
       ELSE epc' = "markdown_done" /\ returned' = {OutputBase \o ".md"}
    /\ UNCHANGED <<exporterScenes, reloaded, stats, exportFrame>>

\* exporter.export_all(base)
CallExportAll ==
    /\ epc = "ready"
    /\ called' = called \cup {"export_all"}
    /\ files' = ExportAll(files, exporterScenes, metadata, OutputBase)
    /\ exporterScenes' = ScenesAfterExport(exporterScenes, "all")
    /\ IF ExportRaises(exporterScenes, "all")
       THEN epc' = "raised" /\ UNCHANGED returned
       ELSE epc' = "all_done"
            /\ returned' = {ExportAllPaths(OutputBase)[k] : k \in {"csv", "json", "markdown"}}
    /\ UNCHANGED <<reloaded, stats, exportFrame>>

\* calculate_statistics(exporter.scenes)
CallStatisticsOnExported ==
    /\ ExporterLive /\ "calculate_statistics" \notin called
    /\ called' = called \cup {"calculate_statistics"}
    /\ IF StatisticsRaises(exporterScenes)
       THEN epc' = "raised" /\ UNCHANGED stats
       ELSE epc' = "stats_done" /\ stats' = CalculateStatistics(exporterScenes)
    /\ UNCHANGED <<exporterScenes, files, returned, reloaded, exportFrame>>

\* main lines 123-136 on the JSON file the exporter wrote
CallReload ==
    /\ epc = "json_done"
    /\ reloaded' = LoadDocument(ParseJsonFile(files[OutputBase \o ".json"]))
    /\ epc' = "reloaded"
    /\ UNCHANGED <<exporterScenes, files, returned, called, stats, exportFrame>>

NextExport ==
    \/ CallToCsv
    \/ CallToJson
    \/ CallToMarkdown
    \/ CallExportAll
    \/ CallStatisticsOnExported
    \/ CallReload

SpecExport == InitExport /\ [][NextExport]_vars

\* ------------------------------------------------------ statistics harness
\* calculate_statistics applied to every sequence of up to MaxStatScenes
\* records, each either without a duration or four seconds long.
StatRecords ==
    {EmptyScene,
     [duration_seconds |-> IntV(4), motion_intensity |-> StrV("high"),
      transition_type |-> StrV("cut")],
     [duration_seconds |-> IntV(3), motion_intensity |-> StrV("low")]}

StatLists == UNION {[1..n -> {DictE(f) : f \in StatRecords}] : n \in 0..MaxStatScenes}

InitStats ==
    /\ variant = "root"
    /\ args = [load_file |-> FALSE, input_file |-> FALSE]
    /\ provider = "gemini"
    /\ pc = "idle"
    /\ env = NoEnv
    /\ director = "none"
    /\ backend = NoBackend
    /\ call = NoResult
    /\ \E es \in StatLists : scenes = ListRaw(es)
    /\ exporterScenes = ListRaw(<<>>)
    /\ input = NoInput
    /\ metadata = EmptyScene
    /\ files = NoFiles
    /\ exported = NoExport
    /\ video = NoVideo
    /\ stats = NoStats
    /\ spc = "ready"
    /\ NormIdle
    /\ ExportIdle
    /\ BatchIdle

\* stats = calculate_statistics(scenes)
CallStatistics ==
    /\ spc = "ready"
    /\ stats' = CalculateStatistics(scenes)
    /\ spc' = "done"
    /\ UNCHANGED <<variant, mainVars, normVars, exportVars, batchVars>>

NextStats == CallStatistics

SpecStats == InitStats /\ [][NextStats]_vars

\* ----------------------------------------------------------- batch harness
\* generate_batch of each generator, one scene call at a time: the call of
\* scene k is entered, the video API answers, the call returns or raises.
BatchRecords ==
    {[scene_number |-> IntV(1), visual_prompt |-> StrV("x")],
     [scene_number |-> IntV(2), visual_prompt |-> StrV("A boy on a rooftop.")],
     [visual_prompt |-> StrV("x")]}

BatchLists == UNION {[1..n -> {DictE(f) : f \in BatchRecords}] : n \in 0..MaxScenes}

\* --parallel-videos, default 2
ParallelCounts == {1, 2}

\* what the API can answer to the generator: only the Gemini backend sends
\* a request; the Vertex placeholder can fail to create its file
ApiOutcomesFor(g) ==
    IF g.mode = "gemini" THEN ApiOutcomes
    ELSE IF g.mode = "vertex" THEN {"bytes", "api_error"}
    ELSE {"unused"}

InitBatch ==
    /\ variant = "root"
    /\ args = [load_file |-> FALSE, input_file |-> FALSE]
    /\ provider = "gemini"
    /\ pc = "idle"
    /\ env = NoEnv
    /\ director = "none"
    /\ backend = NoBackend
    /\ call = NoResult
    /\ \E es \in BatchLists : scenes = ListRaw(es)
    /\ exporterScenes = ListRaw(<<>>)
    /\ input = NoInput
    /\ metadata = EmptyScene
    /\ files = NoFiles
    /\ exported = NoExport
    /\ video = NoVideo
    /\ generator \in GeneratorConfigs
    /\ parallelCount \in ParallelCounts
    /\ apiLog = <<>>
    /\ running = {}
    /\ finished = {}
    /\ generated = <<>>
    /\ bpc = "loop"
    /\ NormIdle
    /\ ExportIdle
    /\ StatIdle

batchFrame == <<variant, mainVars, normVars, exportVars, statVars, generator, parallelCount>>

\* the loop starting the next scene call while earlier ones are still in
\* progress, up to parallel_count at a time
BatchSceneStartParallel ==
    /\ bpc = "loop"
    /\ Cardinality(running) < parallelCount
    /\ Len(apiLog) < Len(scenes.iter)
    /\ \E api \in ApiOutcomesFor(generator) :
        apiLog' = Append(apiLog, api)
    /\ running' = running \cup {Len(apiLog) + 1}
    /\ UNCHANGED <<finished, generated, bpc, batchFrame>>

\* `for scene in scenes`: the loop body is entered for the next scene when
\* the previous call is over
BatchSceneStart ==
    /\ bpc = "loop"
    /\ running = {}
    /\ Len(apiLog) < Len(scenes.iter)
    /\ \E api \in ApiOutcomesFor(generator) :
        apiLog' = Append(apiLog, api)
    /\ running' = running \cup {Len(apiLog) + 1}
    /\ UNCHANGED <<finished, generated, bpc, batchFrame>>

\* generate_scene_video returns or raises; a truthy path is appended
BatchSceneFinish ==
    /\ bpc = "loop"
    /\ \E k \in running :
        LET res == GenerateSceneVideo(generator, scenes.iter[k].f, apiLog[k])
        IN  /\ running' = running \ {k}
            /\ IF res.raised
               THEN bpc' = "raised" /\ UNCHANGED <<finished, generated>>
               ELSE /\ finished' = finished \cup {k}
                    /\ generated' = Collect(generator, generated, res.path)
                    /\ UNCHANGED bpc
    /\ UNCHANGED <<apiLog, batchFrame>>

\* the loop is exhausted: return the list
BatchReturn ==
    /\ bpc = "loop"
    /\ running = {}
    /\ Len(apiLog) = Len(scenes.iter)
    /\ bpc' = "returned"
    /\ UNCHANGED <<apiLog, running, finished, generated, batchFrame>>

NextBatch ==
    \/ BatchSceneStart
    \/ BatchSceneFinish
    \/ BatchReturn

SpecBatch == InitBatch /\ [][NextBatch]_vars

\* ================================================================ claims
\* r is a sequence whose elements are all mappings
IsSceneList(r) == r.kind = "list" /\ \A i \in 1..Len(r.iter) : r.iter[i].t = "dict"

\* every record of r has all of the given fields
AllHave(r, fields) ==
    \A i \in 1..Len(r.iter) : r.iter[i].t = "dict" /\ fields \subseteq DOMAIN r.iter[i].f

\* the normalizer harness has applied _post_process_scenes to raw
Normalized == npc \in {"normalized", "compared", "again"}

\* process_script has returned in this run
Processed == backend.k # "none"

\* C1: for every raw scene sequence of length N the normalizer returns a
\* sequence of length N whose every element has all six defaulted fields.
C1_NormalizerFillsAllSix ==
    (Normalized /\ IsSceneList(raw)) =>
        /\ normOut.ok
        /\ Len(normOut.val.iter) = Len(raw.iter)
        /\ AllHave(normOut.val, DefaultedFields)

\* C2: process_script never raises to its caller; when the backend routine,
\* the decoding or the normalization raises, it returns the fixed fallback.
C2_FailuresDegradeToFallback ==
    Processed =>
        /\ ~call.raised
        /\ (director = "client" /\ (backend.k # "json" \/ call.caught # ""))
               => call.val = MockResponse(variant)

\* C2 witness: the normalization of a decoded document raised inside
\* process_script and the caller got the fallback.
C2_Witness ==
    /\ Processed /\ director = "client"
    /\ backend.k = "json" /\ backend.raw.kind = "list"
    /\ call.caught = "TypeError"
    /\ scenes = MockResponse(variant)

\* C3: a Director left without a working client (no library, no key, or
\* every client constructor failed) answers process_script with the
\* fallback and invokes no backend routine.
C3_NoClientNoBackendCall ==
    /\ (pc = "constructed" /\ (~env.hasLib \/ ~env.hasKey)) => director = "mock"
    /\ (Processed /\ director = "mock") =>
           /\ call.calls = <<>>
           /\ ~call.raised
           /\ call.val = MockResponse(variant)

\* C3 witness: a Director whose library and key were there but whose client
\* constructors all failed has returned from process_script.
C3_Witness ==
    /\ Processed /\ director = "mock"
    /\ env.hasLib /\ env.hasKey /\ env.ctorFailures > 0
    /\ pc = "have_scenes"

\* C4: the fallback sequence has all six defaulted fields in every record,
\* so whatever process_script returns when it falls back is schema-complete.
C4_FallbackHasAllFields ==
    (Processed /\ (director = "mock" \/ call.caught # "")) =>
        AllHave(call.val, DefaultedFields)

\* C5: a raw input that is a bare string or a mapping without a scenes key
\* makes the normalizer fail; it never returns such an input.
C5_BadShapeRaises ==
    (Normalized /\ (raw.kind = "str" \/ (raw.kind = "dict" /\ ~raw.hasScenes))) =>
        ~normOut.ok

\* C6: the normalizer gives the same outcome for {"scenes": L} and for L.
C6_EnvelopeSameAsBare == npc = "compared" => normOut = bareOut

\* C7: on the load-file path the records that reach the exporter have
\* duration_seconds, transition_type, motion_intensity, key_elements and
\* audio_suggestion filled in.
C7_LoadedScenesNormalized ==
    (args.load_file /\ pc = "exported") =>
        AllHave(exporterScenes,
                {"duration_seconds", "transition_type", "motion_intensity",
                 "key_elements", "audio_suggestion"})

\* C8: in a sequence returned by the normalizer the scene_number values are
\* strictly increasing in input order (hence pairwise unique).
C8_SceneNumbersIncreasing ==
    (Normalized /\ IsSceneList(raw) /\ normOut.ok) =>
        \A i, j \in 1..Len(normOut.val.iter) :
            i < j => normOut.val.iter[i].f["scene_number"].n
                       < normOut.val.iter[j].f["scene_number"].n

\* C9: after normalization every record's duration_seconds is a positive
\* number.
C9_DurationPositive ==
    (Normalized /\ IsSceneList(raw) /\ normOut.ok) =>
        \A i \in 1..Len(normOut.val.iter) :
            LET d == normOut.val.iter[i].f["duration_seconds"]
            IN  d.kind = "int" /\ d.n > 0

\* C10: one process_script invocation invokes at most one backend routine,
\* at most once, and it is the one the provider tag selects: groq for
\* "groq", openai for "openai" where the Director has that backend, gemini
\* otherwise.
C10_AtMostOneSelectedRoutine ==
    Processed =>
        /\ Len(call.calls) <= 1
        /\ \A i \in 1..Len(call.calls) :
              call.calls[i] =
                  IF provider = "groq" THEN "groq"
                  ELSE IF provider = "openai" /\ variant = "pkg" THEN "openai"
                  ELSE "gemini"

\* C10 witness: the selected routine failed and was not invoked again.
C10_Witness ==
    /\ Processed /\ provider = "groq"
    /\ backend.k = "api_error"
    /\ call.calls = <<"groq">>
    /\ call.caught = "APIError"

\* main has a scene sequence in hand: loaded, or returned by process_script
HaveResult ==
    \/ input.k = "json" /\ LoadDocument(input.raw).ok
    \/ input.k = "story" /\ Processed /\ ~call.raised

\* the input of this run is in error
InputError ==
    \/ pc # "start" /\ ~args.load_file /\ ~args.input_file
    \/ input.k \in {"missing", "bad_json"}
    \/ input.k = "json" /\ ~LoadDocument(input.raw).ok
    \/ HaveResult /\ scenes.kind = "list" /\ scenes.iter = <<>>

\* C11: when the input is in error (no story or load-file, a load-file
\* that is not JSON or has neither shape, an empty scene sequence) main
\* writes no export file, starts no video generation and stops.
C11_NoOutputOnInputError ==
    InputError =>
        /\ files = NoFiles
        /\ exported = NoExport
        /\ ~video.started
        /\ pc \in {"have_scenes", "exit"}

\* C11 witness: process_script returned an empty sequence and main has
\* returned at the empty check.
C11_Witness ==
    /\ input.k = "story" /\ Processed
    /\ director = "client" /\ call.caught = ""
    /\ scenes = ListRaw(<<>>)
    /\ pc = "exit"

\* C12: on the generation path, whenever process_script has left a
\* non-empty scene sequence, main does not abort before the export step.
C12_GenerationReachesExport ==
    (input.k = "story" /\ Processed /\ ~call.raised /\ scenes.iter # <<>>) => pc # "crashed"

\* C13: generate_batch of every generator never raises, whatever fails
\* on a scene; when it returns every scene has been attempted and the
\* returned paths are those of the scenes whose call gave a path, in order.
C13_BatchNeverStops ==
    /\ bpc # "raised"
    /\ bpc = "returned" =>
          /\ finished = 1..Len(scenes.iter)
          /\ generator.gen # "sora" =>
                generated =
                    LET Gave(k) ==
                            GenerateSceneVideo(generator, scenes.iter[k].f, apiLog[k]).path # ""
                        ok == SelectSeq([k \in 1..Len(scenes.iter) |-> k], Gave)
                    IN  [j \in 1..Len(ok) |-> ScenePath(scenes.iter[ok[j]].f)]

\* C14: a JSON file written by to_json, parsed again, holds under its
\* scenes key the exported sequence: same length, same order, every record
\* with the same keys and the same values, whatever the metadata.
C14_JsonRoundTrip ==
    epc = "reloaded" =>
        /\ reloaded.ok
        /\ reloaded.val.kind = "list"
        /\ Len(reloaded.val.iter) = Len(exporterScenes.iter)
        /\ \A i \in 1..Len(exporterScenes.iter) :
              /\ reloaded.val.iter[i].t = "dict"
              /\ DOMAIN reloaded.val.iter[i].f = DOMAIN exporterScenes.iter[i].f
              /\ \A k \in DOMAIN exporterScenes.iter[i].f :
                    reloaded.val.iter[i].f[k] = exporterScenes.iter[i].f[k]

\* C14 witness: a two-record sequence with a list value, a null value and
\* caller metadata that clashes with a computed key went through the file.
C14_Witness ==
    /\ epc = "reloaded"
    /\ Len(exporterScenes.iter) = 2
    /\ exporterScenes.iter[1].f = FullScene
    /\ "character_details" \in DOMAIN exporterScenes.iter[2].f
    /\ "total_scenes" \in DOMAIN metadata
    /\ reloaded.val = exporterScenes

\* C15: to_csv on records with differing key sets writes one row per
\* record in input order; every key of every record has a column; the cell
\* of a key the record lacks is empty; the cell of a list value is its
\* elements joined by ", ".
C15_CsvHeterogeneousKeys ==
    (epc = "csv_done" /\ Len(exporterScenes.iter) > 0) =>
        LET path == OutputBase \o ".csv"
        IN  /\ path \in DOMAIN files
            /\ files[path].fmt = "csv"
            /\ Len(files[path].rows) = Len(exporterScenes.iter)
            /\ KeysOf(exporterScenes) = SeqElems(files[path].header)
            /\ \A i \in 1..Len(exporterScenes.iter) :
                  \A c \in 1..Len(files[path].header) :
                      LET f == exporterScenes.iter[i].f
                          k == files[path].header[c]
                          cell == files[path].rows[i][c]
                      IN  /\ k \notin DOMAIN f => cell = ""
                          /\ (k \in DOMAIN f /\ f[k].kind = "list") => cell = JoinStr(f[k].l)
                          /\ (k \in DOMAIN f /\ f[k].kind = "str") => cell = f[k].s

\* C15 witness: the two records {scene_number: 1, duration_seconds: 5} and
\* {scene_number: 2, visual_prompt: "x", key_elements: ["a", "b"]} gave two
\* rows, the second with the key_elements cell "a, b".
C15_Witness ==
    /\ epc = "csv_done"
    /\ Len(exporterScenes.iter) = 2
    /\ DOMAIN exporterScenes.iter[1].f = {"scene_number", "duration_seconds"}
    /\ DOMAIN exporterScenes.iter[2].f = {"scene_number", "visual_prompt", "key_elements"}
    /\ files[OutputBase \o ".csv"].header =
           <<"scene_number", "visual_prompt", "duration_seconds", "key_elements">>
    /\ files[OutputBase \o ".csv"].rows = <<<<"1", "", "5", "">>, <<"2", "x", "", "a, b">>>>

\* C16: every path in the mapping export_all returns names a file that the
\* call produced, for every scene sequence, the empty one included.
C16_ExportAllPathsExist ==
    epc = "all_done" => \A path \in returned : path \in DOMAIN files

\* C17 as stated: for a non-empty sequence total_scenes is the number of
\* records and total_duration_seconds == average_scene_duration *
\* total_scenes holds exactly; for the empty sequence the result is empty.
C17_ExactProduct ==
    spc = "done" =>
        IF scenes.iter = <<>> THEN stats.empty
        ELSE /\ ~stats.empty
             /\ stats.total_scenes = Len(scenes.iter)
             /\ TimesCount(stats.average_scene_duration) =
                    [base |-> stats.total_duration_seconds, ulps |-> 0]

\* C17 amended: for a non-empty sequence total_scenes is the number of
\* records and average_scene_duration * total_scenes is the double
\* total_duration_seconds or one of its two neighbours; for the empty
\* sequence the result is empty.
C17_ProductWithinTolerance ==
    spc = "done" =>
        IF scenes.iter = <<>> THEN stats.empty
        ELSE /\ ~stats.empty
             /\ stats.total_scenes = Len(scenes.iter)
             /\ TimesCount(stats.average_scene_duration).base = stats.total_duration_seconds
             /\ TimesCount(stats.average_scene_duration).ulps \in {0 - 1, 0, 1}

\* C17 witness: seven records totalling 29 seconds, where the product is
\* not the total itself.
C17_Witness ==
    /\ spc = "done"
    /\ stats.total_scenes = 7
    /\ stats.total_duration_seconds = 29
    /\ TimesCount(stats.average_scene_duration).ulps # 0

\* C18: with a load-file given no Director is constructed and no backend
\* routine is invoked, also when a story input is given as well.
C18_LoadBypassesGeneration ==
    args.load_file =>
        /\ director = "none"
        /\ env = NoEnv
        /\ backend = NoBackend
        /\ call.calls = <<>>

\* C18 witness: a run given both a load-file and a story input has exported
\* the loaded scenes and finished.
C18_Witness ==
    /\ args.load_file /\ args.input_file
    /\ input.k = "json" /\ Len(exporterScenes.iter) > 0
    /\ pc = "done"

C21_SuppliedFieldsKept ==
    (Normalized /\ IsSceneList(raw)) =>
        /\ normOut.ok
        /\ Len(normOut.val.iter) = Len(raw.iter)
        /\ \A i \in 1..Len(raw.iter) :
              /\ normOut.val.iter[i].t = "dict"
              /\ DOMAIN raw.iter[i].f \subseteq DOMAIN normOut.val.iter[i].f
              /\ \A k \in DOMAIN raw.iter[i].f :
                    normOut.val.iter[i].f[k] = raw.iter[i].f[k]
        /\ returnsArg
        /\ argAfter = normOut.val

\* C21 witness: a record with a string duration next to a record with a
\* null motion_intensity came back in that order with those values, and
\* the argument itself was filled.
C21_Witness ==
    /\ Normalized /\ IsSceneList(raw) /\ Len(raw.iter) = 2
    /\ raw.iter[1].f = [duration_seconds |-> StrV("five")]
    /\ raw.iter[2].f = [motion_intensity |-> NullV]
    /\ normOut.val.iter[1].f["duration_seconds"] = StrV("five")
    /\ normOut.val.iter[2].f["motion_intensity"] = NullV
    /\ argAfter # raw

\* C20: a record without transition_type gets "fade" when it is the last
\* element of the sequence and "cut" otherwise.
C20_TransitionDefaults ==
    (Normalized /\ IsSceneList(raw) /\ normOut.ok) =>
        \A i \in 1..Len(raw.iter) :
            "transition_type" \notin DOMAIN raw.iter[i].f =>
                /\ "transition_type" \in DOMAIN normOut.val.iter[i].f
                /\ normOut.val.iter[i].f["transition_type"] =
                       IF i = Len(raw.iter) THEN StrV("fade") ELSE StrV("cut")

\* C30: a second pass of the normalizer over its own output returns that
\* output: nothing is reassigned, the position-dependent defaults included.
C30_NormalizerIdempotent ==
    npc = "again" => (againOut.ok /\ againOut.val = normOut.val)

\* C30 witness: two records without scene_number and transition_type were
\* given "cut" then "fade" and the numbers 1 and 2, and the second pass
\* has run.
C30_Witness ==
    /\ npc = "again" /\ variant = "root"
    /\ IsSceneList(raw) /\ Len(raw.iter) = 2
    /\ raw.iter[1].f = EmptyScene /\ raw.iter[2].f = EmptyScene
    /\ normOut.val.iter[1].f["transition_type"] = StrV("cut")
    /\ normOut.val.iter[2].f["scene_number"] = IntV(2)
    /\ againOut.ok

\* C22: calculate_statistics, to_csv, to_json, to_markdown and export_all only
\* read their input: whatever calls are made on an exporter, in whatever
\* order, its scene sequence and its metadata stay what they were.
C22_ExportsReadOnly ==
    [][(epc # "idle") => (exporterScenes' = exporterScenes /\ metadata' = metadata)]_vars

\* to_csv, which joins a list-valued field into text, and at least two other
\* operations have been called on records that carry a list
C22_Witness ==
    /\ {"to_csv", "calculate_statistics"} \subseteq called
    /\ Cardinality(called) >= 3
    /\ \E i \in 1..Len(exporterScenes.iter) :
           \E k \in DOMAIN exporterScenes.iter[i].f : exporterScenes.iter[i].f[k].kind = "list"

\* the duration a record counts for: its duration_seconds, 5 when it has none
CountedDuration(f) ==
    IF "duration_seconds" \in DOMAIN f THEN f["duration_seconds"].n ELSE 5

\* the sum of the counted durations of the first n records
RECURSIVE CountedTotal(_, _)
CountedTotal(q, n) ==
    IF n = 0 THEN 0 ELSE CountedTotal(q, n - 1) + CountedDuration(q[n].f)

\* the exporter's JSON file has been written
JsonWritten ==
    /\ called \cap {"to_json", "export_all"} # {}
    /\ (OutputBase \o ".json") \in DOMAIN files

\* C23: the metadata block of a written JSON file has total_scenes equal to
\* the number of scenes, total_duration_seconds equal to the sum of the
\* durations, and every caller-supplied metadata field with its supplied
\* value, whatever the keys of the caller's metadata are.
C23_JsonMetadataBlock ==
    JsonWritten =>
        LET block == DecodeObject(files[OutputBase \o ".json"].metadata)
        IN  /\ {"generated_at", "total_scenes", "total_duration_seconds"} \subseteq DOMAIN block
            /\ block["total_scenes"] = IntV(Len(exporterScenes.iter))
            /\ block["total_duration_seconds"] =
                   IntV(CountedTotal(exporterScenes.iter, Len(exporterScenes.iter)))
            /\ \A k \in DOMAIN metadata : k \in DOMAIN block /\ block[k] = metadata[k]

\* the position of a name in a sequence of distinct names
RankIn(q, k) == CHOOSE i \in 1..Len(q) : q[i] = k

\* the ten known fields of the tabular export
KnownFields == SeqElems(OrderedFields)

\* the exporter's CSV file has been written
CsvWritten ==
    /\ called \cap {"to_csv", "export_all"} # {}
    /\ (OutputBase \o ".csv") \in DOMAIN files

\* C24: the columns of a written CSV file are exactly the keys that occur in
\* some scene, none twice: first the known fields that occur, in their fixed
\* order, then every other key in lexicographic order.
C24_CsvColumnOrder ==
    CsvWritten =>
        LET h == files[OutputBase \o ".csv"].header
        IN  /\ SeqElems(h) = KeysOf(exporterScenes)
            /\ \A i, j \in 1..Len(h) : i < j =>
                  /\ h[i] # h[j]
                  /\ (h[i] \in KnownFields /\ h[j] \in KnownFields)
                        => RankIn(OrderedFields, h[i]) < RankIn(OrderedFields, h[j])
                  /\ h[i] \notin KnownFields => h[j] \notin KnownFields
                  /\ (h[i] \notin KnownFields /\ h[j] \notin KnownFields)
                        => RankIn(LexOrder, h[i]) < RankIn(LexOrder, h[j])

\* a file whose columns are three known fields out of lexicographic order
\* followed by the two other keys of the records
C24_Witness ==
    /\ CsvWritten
    /\ files[OutputBase \o ".csv"].header =
           <<"scene_number", "narrative_beat", "visual_prompt", "key_elements",
             "character_details", "continuity_notes">>

\* the exporter's Markdown file has been written
MarkdownWritten ==
    /\ called \cap {"to_markdown", "export_all"} # {}
    /\ (OutputBase \o ".md") \in DOMAIN files

\* the fields the technical table of a scene section is made of
TechnicalFields ==
    {"camera_movement", "mood_lighting", "duration_seconds", "transition_type",
     "motion_intensity", "audio_suggestion"}

\* C25: to_markdown does not raise on scenes that lack optional fields, and
\* in the section of each scene the beat line, the prompt block, the
\* technical table and the key-elements list are there only when a field of
\* theirs is present (the list only when key_elements is non-empty); the
\* table has a row for exactly the technical fields present.
C25_MarkdownOmitsAbsentParts ==
    /\ (called \cap {"to_markdown", "export_all"} # {} /\ DurationsNumeric(exporterScenes))
          => (OutputBase \o ".md") \in DOMAIN files
    /\ MarkdownWritten =>
          LET sections == files[OutputBase \o ".md"].sections
          IN  /\ Len(sections) = Len(exporterScenes.iter)
              /\ \A i \in 1..Len(sections) :
                    LET f == exporterScenes.iter[i].f
                        sec == sections[i]
                    IN  /\ sec.beat # <<>> => "narrative_beat" \in DOMAIN f
                        /\ sec.prompt # <<>> => "visual_prompt" \in DOMAIN f
                        /\ (sec.tableHead # <<>> \/ sec.table # <<>>)
                              => DOMAIN f \cap TechnicalFields # {}
                        /\ {sec.table[j][1] : j \in 1..Len(sec.table)}
                              = DOMAIN f \cap TechnicalFields
                        /\ sec.elements # <<>> =>
                              ("key_elements" \in DOMAIN f /\ f["key_elements"] # ListV(<<>>))

\* calculate_statistics has returned a result for a non-empty sequence
StatisticsReturned == "calculate_statistics" \in called /\ ~stats.empty

\* C26: total_duration_seconds of calculate_statistics is the sum of the
\* durations with a record lacking the field counted as 5, and
\* total_duration_minutes is that sum divided by 60; the
\* total_duration_seconds in the metadata of the JSON export of the same
\* scenes is the same number.
C26_DurationTotals ==
    LET total == CountedTotal(exporterScenes.iter, Len(exporterScenes.iter))
    IN  /\ StatisticsReturned =>
              /\ stats.total_duration_seconds = total
              /\ stats.total_duration_minutes = TrueDivide(total, 60)
        /\ (StatisticsReturned /\ JsonWritten) =>
              DecodeObject(files[OutputBase \o ".json"].metadata)["total_duration_seconds"]
                  = IntV(stats.total_duration_seconds)

\* the records of a sequence that have a field
Having(q, key) == {i \in 1..Len(q) : key \in DOMAIN q[i].f}

\* C27 as stated: a distribution has a key for each value of the field in
\* the records and for nothing else, in order of first occurrence, each with
\* its number of occurrences, and the counts add up to total_scenes.
C27_KeysAreFieldValues ==
    (spc = "done" /\ ~stats.empty) =>
        \A d \in {<<"motion_intensity", stats.motion_distribution, stats.motion_order>>,
                   <<"transition_type", stats.transition_distribution,
                     stats.transition_order>>} :
            LET q == scenes.iter
                key == d[1]
                dist == d[2]
                order == d[3]
                SumUpTo[n \in 0..Len(order)] ==
                    IF n = 0 THEN 0 ELSE SumUpTo[n - 1] + dist[order[n]]
            IN  /\ DOMAIN dist = {q[i].f[key] : i \in Having(q, key)}
                /\ \A x \in DOMAIN dist :
                      dist[x] = Cardinality({i \in Having(q, key) : q[i].f[key] = x})
                /\ SumUpTo[Len(order)] = stats.total_scenes

\* the key a record is counted under: its value, "unknown" when it has none
CountedUnder(f, key) == IF key \in DOMAIN f THEN f[key] ELSE StrV("unknown")

\* C27 amended: as stated, with the records that lack the field counted
\* under the key "unknown", which takes its place in the order where the
\* first such record occurs.
C27_KeysWithUnknown ==
    (spc = "done" /\ ~stats.empty) =>
        \A d \in {<<"motion_intensity", stats.motion_distribution, stats.motion_order>>,
                   <<"transition_type", stats.transition_distribution,
                     stats.transition_order>>} :
            LET q == scenes.iter
                key == d[1]
                dist == d[2]
                order == d[3]
                First(x) == CHOOSE i \in 1..Len(q) :
                    CountedUnder(q[i].f, key) = x
                    /\ \A j \in 1..Len(q) : CountedUnder(q[j].f, key) = x => i <= j
                SumUpTo[n \in 0..Len(order)] ==
                    IF n = 0 THEN 0 ELSE SumUpTo[n - 1] + dist[order[n]]
            IN  /\ DOMAIN dist = {CountedUnder(q[i].f, key) : i \in 1..Len(q)}
                /\ \A x \in DOMAIN dist :
                      dist[x] = Cardinality({i \in 1..Len(q) : CountedUnder(q[i].f, key) = x})
                /\ SeqElems(order) = DOMAIN dist
                /\ \A m, n \in 1..Len(order) :
                      m < n => (order[m] # order[n] /\ First(order[m]) < First(order[n]))
                /\ SumUpTo[Len(order)] = stats.total_scenes

\* statistics of records where "low" occurs before "high" and a record
\* without the fields comes last: three motion keys in that order
C27_Witness ==
    /\ spc = "done"
    /\ stats.motion_order = <<StrV("low"), StrV("high"), StrV("unknown")>>
    /\ stats.motion_distribution[StrV("low")] = 2
    /\ stats.transition_order = <<StrV("unknown"), StrV("cut")>>

\* main has written every export file it was asked for
ExportsOnDisk ==
    /\ pc = "exported"
    /\ exported.paths # {}
    /\ exported.paths \subseteq DOMAIN files

\* a step leaves the export files and the exported scenes alone
ExportsUntouched ==
    /\ files' = files
    /\ exported' = exported
    /\ exporterScenes' = exporterScenes
    /\ scenes' = scenes

\* C28: in main the video stage runs only when every selected export file
\* is on disk, and whatever the video stage meets (the import failing, the
\* generator raising, every scene failing) it leaves the export files, the
\* list of exported paths and the exported scene sequence as they were and
\* writes no video to the path of an export file.
C28_ExportsBeforeVideos ==
    /\ [][(video' # video => ExportsOnDisk)
           /\ (pc = "exported" => ExportsUntouched)]_vars
    /\ [](SeqElems(video.files) \cap DOMAIN files = {})

\* main ended after exporting the three files and a video stage in which the
\* generator ran and no scene gave a video
C28_Witness ==
    /\ pc = "done"
    /\ video.started /\ video.files = <<>>
    /\ Cardinality(exported.paths) = 3
    /\ exported.paths \subseteq DOMAIN files
    /\ exporterScenes = scenes /\ Len(scenes.iter) = 2

\* C29: within one generate_batch call no two scenes are stored at the same
\* path: the paths collected so far, and the paths returned, are pairwise
\* distinct, for every scene sequence main can hand over, records without
\* scene_number included.
C29_BatchPathsDistinct ==
    \A i, j \in 1..Len(generated) : i # j => generated[i] # generated[j]

====
